---- MODULE Spec2Model ----
(***************************************************************************)
(* URDF component synthesis of onshape_api/urdf.py: get_topological_mates, *)
(* get_robot_joint, get_robot_link and the asyncio orchestration of        *)
(* _get_urdf_components_async (one process_edge task per graph edge).      *)
(*                                                                         *)
(* Strings are sequences of tokens, so that f-string concatenation and     *)
(* key.split(MATE_JOINER) are computed rather than assumed.  Homogeneous   *)
(* transforms are words over named frames (free group), so that matrix     *)
(* product and inverse are computed symbolically.                          *)
(***************************************************************************)
EXTENDS Integers, Sequences, FiniteSets, TLC

VARIABLES
    graph_edges,            \* graph.edges in iteration order: Seq of <<parent, child>>
    parts,                  \* parts: occurrence name -> Part
    raw_mates,              \* the mate table as the caller passed it (history)
    mates,                  \* the caller's mate table (records are mutated in place)
    relations,              \* the caller's relation table (mutated in place)
    topological_mates,      \* local of _get_urdf_components_async
    topological_relations,  \* local of _get_urdf_components_async
    links_map,              \* body name -> Link
    joints_map,             \* joint name -> joint
    assets_map,             \* body name -> DownloadableLink
    stl_to_link_tf_map,     \* body name -> mesh-to-body transform
    pc_main,                \* position of _get_urdf_components_async
    pc_edge,                \* position of each process_edge task
    locals,                 \* per task: joint_list, link_list, joint_mimic of process_edge
    ready,                  \* the event loop's FIFO of ready callbacks
    threads,                \* asyncio.to_thread calls in flight
    warnings,               \* LOGGER.warning records emitted so far
    rng                     \* random.SystemRandom: the k-th Link built draws rng[k]

vars == <<graph_edges, parts, raw_mates, mates, relations, topological_mates,
          topological_relations, links_map, joints_map, assets_map,
          stl_to_link_tf_map, pc_main, pc_edge, locals, ready, threads, warnings, rng>>

-----------------------------------------------------------------------------
(* Bounds of the model *)

MaxNodes == 3

-----------------------------------------------------------------------------
(* Generic helpers *)

Range(f) == {f[x] : x \in DOMAIN f}

Reverse(s) == [i \in 1..Len(s) |-> s[Len(s) + 1 - i]]

EmptyMap == [x \in {} |-> {}]

\* dict.update / dict[k] = v
Put(m, k, v) == [x \in (DOMAIN m) \cup {k} |-> IF x = k THEN v ELSE m[x]]

\* dict.pop(k)
Pop(m, k) == [x \in (DOMAIN m) \ {k} |-> m[x]]

\* {e.name: e for e in list}: later entries of the list win
RECURSIVE UpdateAll(_, _)
UpdateAll(m, list) ==
    IF list = <<>> THEN m
    ELSE UpdateAll(Put(m, Head(list).name, Head(list)), Tail(list))

-----------------------------------------------------------------------------
(* Names and keys (token strings) *)

NodeNames == <<"root", "A", "B", "C", "D", "E">>

NodeName(i) == <<NodeNames[i]>>

root_node == NodeName(1)

MATE_JOINER == "-MATE-"

\* f"{parent}{MATE_JOINER}{child}"
MateKey(parent, child) == parent \o <<MATE_JOINER>> \o child

\* tuple(key.split(MATE_JOINER))
RECURSIVE SplitFrom(_, _, _)
SplitFrom(key, i, cur) ==
    IF i > Len(key) THEN <<cur>>
    ELSE IF key[i] = MATE_JOINER THEN <<cur>> \o SplitFrom(key, i + 1, <<>>)
    ELSE SplitFrom(key, i + 1, Append(cur, key[i]))

Split(key) == SplitFrom(key, 1, <<>>)

\* get_sanitized_name: blanks become dashes
get_sanitized_name(name) == [i \in DOMAIN name |-> IF name[i] = " " THEN "-" ELSE name[i]]

-----------------------------------------------------------------------------
(* Transforms: words over frames; <<f, 1>> is the frame f, <<f, -1>> its inverse *)

eye == <<>>

Frame(f) == << <<f, 1>> >>

\* np.linalg.inv
Inv(t) == [i \in 1..Len(t) |-> <<t[Len(t) + 1 - i][1], 0 - t[Len(t) + 1 - i][2]>>]

\* a @ b
RECURSIVE MatMul(_, _)
MatMul(a, b) ==
    IF a = <<>> \/ b = <<>> THEN a \o b
    ELSE IF a[Len(a)][1] = b[1][1] /\ a[Len(a)][2] + b[1][2] = 0
         THEN MatMul(SubSeq(a, 1, Len(a) - 1), Tail(b))
         ELSE a \o b

-----------------------------------------------------------------------------
(* Constants of onshape_api.parse and optional values *)

\* index of the parent-side entity in mate.matedEntities (0-based, as in Python)
PARENT == 0

\* index of the driving mate in relation.mates (0-based, as in Python)
RELATION_PARENT == 0

\* Python's None for optional strings, records and numbers; Some(v) is <<v>> for
\* records and numbers, and the string itself for (non-empty) strings
None == <<>>

Some(v) == <<v>>

-----------------------------------------------------------------------------
(* get_joint_name *)

\* position of the last graph edge whose canonical key is k: dict insertion order
KeyIndex(k) ==
    LET is == {i \in 1..Len(graph_edges) : MateKey(graph_edges[i][1], graph_edges[i][2]) = k}
    IN  IF is = {} THEN 0 ELSE CHOOSE i \in is : \A j \in is : j <= i

\* reverse_mates = {mate.id: key for key, mate in mates.items()}; reverse_mates.get(mate_id)
get_joint_name(mate_id, tmates) ==
    LET ks == {k \in DOMAIN tmates : tmates[k].id = mate_id}
    IN  IF ks = {} THEN None
        ELSE CHOOSE k \in ks : \A k2 \in ks : KeyIndex(k2) <= KeyIndex(k)

-----------------------------------------------------------------------------
(* get_robot_joint *)

JointLimits(lo, hi) == Some([effort |-> "1.0", velocity |-> "1.0", lower |-> lo, upper |-> hi])

JointDynamics == Some([damping |-> "0.1", friction |-> "0.1"])

RevoluteJoint(name, parent, child, origin, axis, mimic) ==
    [type |-> "revolute", name |-> name, parent |-> parent, child |-> child,
     origin |-> origin, limits |-> JointLimits("-pi", "pi"), axis |-> axis,
     dynamics |-> JointDynamics, mimic |-> mimic]

PrismaticJoint(name, parent, child, origin, axis, mimic) ==
    [type |-> "prismatic", name |-> name, parent |-> parent, child |-> child,
     origin |-> origin, limits |-> JointLimits("-0.1", "0.1"), axis |-> axis,
     dynamics |-> JointDynamics, mimic |-> mimic]

FixedJoint(name, parent, child, origin) ==
    [type |-> "fixed", name |-> name, parent |-> parent, child |-> child,
     origin |-> origin, limits |-> None, axis |-> None, dynamics |-> None, mimic |-> None]

DummyJoint(name, parent, child, origin) ==
    [type |-> "dummy", name |-> name, parent |-> parent, child |-> child,
     origin |-> origin, limits |-> None, axis |-> None, dynamics |-> None, mimic |-> None]

\* Link(name=...) with no visual, inertial or collision element
BareLink(name) ==
    [name |-> name, mesh |-> None, color |-> None, inertial_origin |-> None, mass |-> None]

\* matedEntities[i] with Python's 0-based index
Entity(mate, i) == mate.matedEntities[i + 1]

\* variant: CYLINDRICAL is left out of the prismatic branch
PrismaticMateTypes_SliderOnly == {"SLIDER"}

\* line 183: the mate types mapped to a prismatic joint
PrismaticMateTypes == {"SLIDER", "CYLINDRICAL"}

\* variant: the second intermediate link is not returned
BallLinks_OnlyX(dummy_x, dummy_y) == <<dummy_x>>

\* line 206: links = [dummy_x, dummy_y]
BallLinks(dummy_x, dummy_y) == <<dummy_x, dummy_y>>

\* variant: only the X joint takes the mimic
BallJoints_MimicOnXOnly(sanitized_name, parent, child, dummy_x, dummy_y, origin, mimic) ==
    <<RevoluteJoint(sanitized_name \o <<"-x">>, parent, dummy_x.name, origin, <<1, 0, 0>>, mimic),
      RevoluteJoint(sanitized_name \o <<"-y">>, dummy_x.name, dummy_y.name, eye, <<0, 1, 0>>, None),
      RevoluteJoint(sanitized_name \o <<"-z">>, dummy_y.name, child, eye, <<0, 0, -1>>, None)>>

\* variant: the Z joint hangs off the first intermediate link
BallJoints_ZFromX(sanitized_name, parent, child, dummy_x, dummy_y, origin, mimic) ==
    <<RevoluteJoint(sanitized_name \o <<"-x">>, parent, dummy_x.name, origin, <<1, 0, 0>>, mimic),
      RevoluteJoint(sanitized_name \o <<"-y">>, dummy_x.name, dummy_y.name, eye, <<0, 1, 0>>, mimic),
      RevoluteJoint(sanitized_name \o <<"-z">>, dummy_x.name, child, eye, <<0, 0, -1>>, mimic)>>

\* lines 208-254: the X, Y, Z revolute chain of a ball mate
BallJoints(sanitized_name, parent, child, dummy_x, dummy_y, origin, mimic) ==
    <<RevoluteJoint(sanitized_name \o <<"-x">>, parent, dummy_x.name, origin, <<1, 0, 0>>, mimic),
      RevoluteJoint(sanitized_name \o <<"-y">>, dummy_x.name, dummy_y.name, eye, <<0, 1, 0>>, mimic),
      RevoluteJoint(sanitized_name \o <<"-z">>, dummy_y.name, child, eye, <<0, 0, -1>>, mimic)>>

get_robot_joint(parent, child, mate, stl_to_parent_tf, mimic, is_rigid_assembly) ==
    LET parent_to_mate_tf ==
            IF is_rigid_assembly
            THEN MatMul(Frame(Entity(mate, PARENT).parentCS), Frame(Entity(mate, PARENT).matedCS))
            ELSE Frame(Entity(mate, PARENT).matedCS)
        stl_to_mate_tf == MatMul(stl_to_parent_tf, parent_to_mate_tf)
        origin == stl_to_mate_tf
        sanitized_name == get_sanitized_name(mate.name)
        dummy_x == BareLink(parent \o <<"-dummy-x">>)
        dummy_y == BareLink(parent \o <<"-dummy-y">>)
    IN  IF mate.mateType = "REVOLUTE" THEN
            [joints |-> <<RevoluteJoint(sanitized_name, parent, child, origin, <<0, 0, -1>>, mimic)>>,
             links |-> <<>>, warned |-> FALSE]
        ELSE IF mate.mateType = "FASTENED" THEN
            [joints |-> <<FixedJoint(sanitized_name, parent, child, origin)>>,
             links |-> <<>>, warned |-> FALSE]
        ELSE IF mate.mateType \in PrismaticMateTypes THEN
            [joints |-> <<PrismaticJoint(sanitized_name, parent, child, origin, <<0, 0, -1>>, mimic)>>,
             links |-> <<>>, warned |-> FALSE]
        ELSE IF mate.mateType = "BALL" THEN
            [joints |-> BallJoints(sanitized_name, parent, child, dummy_x, dummy_y, origin, mimic),
             links |-> BallLinks(dummy_x, dummy_y), warned |-> FALSE]
        ELSE
            [joints |-> <<DummyJoint(sanitized_name, parent, child, origin)>>,
             links |-> <<>>, warned |-> TRUE]

-----------------------------------------------------------------------------
(* get_robot_link *)

\* lines 67-74: the mesh-to-body transform _stl_to_link_tf
StlToLinkTf(part, mate) ==
    IF mate = None
    THEN Inv(Frame(<<"center_of_mass", part.partId>>))
    ELSE Inv(Frame(mate[1].matedEntities[1].matedCS))

\* lines 82-93: the DownloadableLink built in the worker thread
MakeDownloadableLink(name, part, tf) ==
    [partID |-> part.partId, transform |-> tf,
     is_rigid_assembly |-> part.isRigidAssembly, file_name |-> name \o <<".stl">>]

\* the palette random.SystemRandom().choice draws from (line 105)
Colors == {"RED", "GREEN"}

\* lines 95-128: the Link, with the colour drawn for its visual material (line 105)
MakeLink(name, part, tf, color) ==
    [name |-> name, mesh |-> name \o <<".stl">>, color |-> Some(color),
     inertial_origin |-> Some(MatMul(tf, Frame(<<"center_of_mass", part.partId>>))),
     mass |-> Some(<<"mass", part.partId>>)]

-----------------------------------------------------------------------------
(* get_topological_mates *)

EdgeSet(edges) == Range(edges)

\* variant: the rogue mate is stored without reversing its entities
Oriented_Unchanged(m) == m

\* line 302: matedEntities = matedEntities[::-1]
Oriented(m) == [m EXCEPT !.matedEntities = Reverse(@)]

\* variant: a reversed mate stays under the key it was authored under
TopoEdge_RogueKeyed(st, edge, rogue_mates) ==
    LET key == MateKey(edge[1], edge[2])
        rogue_key == MateKey(edge[2], edge[1])
    IN  IF <<edge[2], edge[1]>> \in rogue_mates THEN
            [st EXCEPT !.tm = Put(@, rogue_key, Oriented(st.mates[rogue_key])),
                       !.mates = [@ EXCEPT ![rogue_key] = Oriented(st.mates[rogue_key])]]
        ELSE IF key \in DOMAIN st.mates THEN
            [st EXCEPT !.tm = Put(@, key, st.mates[key])]
        ELSE
            [st EXCEPT !.raised = TRUE]

\* one iteration of the loop over graph.edges (lines 292-310)
TopoEdge(st, edge, rogue_mates) ==
    LET parent == edge[1]
        child == edge[2]
        key == MateKey(parent, child)
        rogue_key == MateKey(child, parent)
    IN  IF <<child, parent>> \in rogue_mates THEN
            LET m == Oriented(st.mates[rogue_key])
                rel == IF st.rels # EmptyMap /\ rogue_key \in DOMAIN st.rels
                       THEN Pop(Put(st.rels, key, st.rels[rogue_key]), rogue_key)
                       ELSE st.rels
            IN  [st EXCEPT !.tm = Put(@, key, m),
                           !.mates = [@ EXCEPT ![rogue_key] = m],
                           !.rels = rel]
        ELSE IF key \in DOMAIN st.mates THEN
            [st EXCEPT !.tm = Put(@, key, st.mates[key])]
        ELSE
            [st EXCEPT !.raised = TRUE]

RECURSIVE TopoLoop(_, _, _, _)
TopoLoop(st, edges, i, rogue_mates) ==
    IF i > Len(edges) \/ st.raised THEN st
    ELSE TopoLoop(TopoEdge(st, edges[i], rogue_mates), edges, i + 1, rogue_mates)

\* returns tm (topological_mates), rels (topological_relations, the caller's dict),
\* mates (the caller's table after the in-place reversals), raised (KeyError)
get_topological_mates(edges, mts, rels) ==
    LET mate_keys == {Split(key) : key \in DOMAIN mts}
        rogue_mates == mate_keys \ EdgeSet(edges)
    IN  TopoLoop([tm |-> EmptyMap, rels |-> rels, mates |-> mts, raised |-> FALSE],
                 edges, 1, rogue_mates)

-----------------------------------------------------------------------------
(* Inputs: rooted trees, graph.edges orders, parts, mate and relation tables *)

MateTypes == {"SLIDER", "CYLINDRICAL", "REVOLUTE", "PIN_SLOT", "PLANAR", "BALL",
              "FASTENED", "PARALLEL"}

\* rooted trees over nodes 1..n with root 1: par[c] is the parent of node c
Trees(n) == {par \in [2..n -> 1..n] : \A c \in 2..n : par[c] < c}

\* graph.edges iterates node by node (adjacency dict), so the edges of one
\* parent are contiguous; node and adjacency insertion orders are free
EdgeOrders(n, par) ==
    {s \in [1..(n - 1) -> 2..n] :
        /\ \A i, j \in 1..(n - 1) : i # j => s[i] # s[j]
        /\ \A i, j, k \in 1..(n - 1) :
              (i < j /\ j < k /\ par[s[i]] = par[s[k]]) => par[s[j]] = par[s[i]]}

EdgesOf(par, s) == [i \in DOMAIN s |-> <<NodeName(par[s[i]]), NodeName(s[i])>>]

Part(name) == [partId |-> name, isRigidAssembly |-> FALSE]

\* a rigid sub-assembly exported as one part
RigidPart(name) == [partId |-> name, isRigidAssembly |-> TRUE]

MateId(c, dir) == <<"id", NodeNames[c], dir>>

MatedEntity(id, occ) ==
    [matedOccurrence |-> occ, matedCS |-> <<"matedCS", id, occ>>,
     parentCS |-> <<"part_tf", id, occ>>]

\* the mate feature `id` authored between x and y, stored under the key x-MATE-y
RawMate(id, x, y, type, name) ==
    [id |-> id, name |-> name, mateType |-> type,
     matedEntities |-> <<MatedEntity(id, x), MatedEntity(id, y)>>]

MateName(c) == <<"Mate", " ", NodeNames[c]>>

\* keys under which the mate of the edge into c is stored
PlacedKeys(par, c, place) ==
    LET p == NodeName(par[c])
        ch == NodeName(c)
    IN  (IF place \in {"fwd", "both"} THEN {MateKey(p, ch)} ELSE {})
        \cup (IF place \in {"rev", "both"} THEN {MateKey(ch, p)} ELSE {})

\* the mate table of a tree: cfg[c] = [place, type, name] for the edge into c
MateTable(n, par, cfg) ==
    LET keys == UNION {PlacedKeys(par, c, cfg[c].place) : c \in 2..n}
        child(k) == CHOOSE c \in 2..n : k \in PlacedKeys(par, c, cfg[c].place)
        fwd(k) == k = MateKey(NodeName(par[child(k)]), NodeName(child(k)))
    IN  [k \in keys |->
            IF fwd(k)
            THEN RawMate(MateId(child(k), "f"), NodeName(par[child(k)]), NodeName(child(k)),
                         cfg[child(k)].type, cfg[child(k)].name)
            ELSE RawMate(MateId(child(k), "r"), NodeName(child(k)), NodeName(par[child(k)]),
                         cfg[child(k)].type, cfg[child(k)].name)]

\* mate type palette of the edges that are not the one under study
CommonTypes == {"REVOLUTE", "BALL"}

\* two mate names that the user may give to any mate
SharedNames == {<<"Joint", " ", "1">>, <<"Joint", " ", "2">>}

\* mate types of the edges a relation table refers to
RelationMateTypes == {"REVOLUTE", "SLIDER", "FASTENED", "BALL", "PLANAR"}

\* number of mates a relation lists
RelationSizes == {1, 2, 3}

\* edges mated in tree direction under unique names; one edge d takes any mate type
TypeConfigs(n) ==
    {cfg \in [2..n -> [place : {"fwd"}, type : MateTypes, name : {<<"?">>}]] :
        \E d \in 2..n : \A c \in 2..n : c # d => cfg[c].type \in CommonTypes}

\* edges mated in tree direction; mate names may repeat
NameConfigs(n) ==
    [2..n -> [place : {"fwd"}, type : CommonTypes, name : SharedNames]]

\* each edge's mate authored in tree direction, reversed, both ways or not at all
PlaceConfigs(n) ==
    [2..n -> [place : {"fwd", "rev", "both", "none"}, type : {"REVOLUTE"}, name : {<<"?">>}]]

WithNames(cfg) == [c \in DOMAIN cfg |-> [cfg[c] EXCEPT !.name = MateName(c)]]

\* ids a relation may list: the mates of the tree edges and one mate outside the assembly tree
IdPool(n) == {MateId(c, "f") : c \in 2..n} \cup {<<"id", "X", "f">>}

RelationMateLists(n) ==
    UNION {{s \in [1..k -> IdPool(n)] : \A i, j \in 1..k : i # j => s[i] # s[j]} :
           k \in RelationSizes}

MateRelation(ids, ratio) ==
    [relationType |-> "GEAR", mates |-> [i \in DOMAIN ids |-> [featureId |-> ids[i]]],
     reverseDirection |-> FALSE, relationRatio |-> ratio, name |-> <<"Gear", " ", "1">>]

\* relation tables: one relation, stored under the id of one of its mates or under
\* the ids of all its mates but the driving one
RelationTables(n) ==
    UNION {{[k \in keys |-> MateRelation(ids, None)] :
                keys \in {{ids[i]} : i \in DOMAIN ids}
                         \cup {{ids[i] : i \in (DOMAIN ids) \ {RELATION_PARENT + 1}}}} :
           ids \in RelationMateLists(n)}

\* the edges whose mate id is a key of the relation table take the type t, the others REVOLUTE
RelationConfig(n, rels, t) ==
    [c \in 2..n |-> [place |-> "fwd",
                     type |-> IF MateId(c, "f") \in DOMAIN rels THEN t ELSE "REVOLUTE",
                     name |-> MateName(c)]]

\* the canonical graph.edges order: children in increasing order, parent by parent
CanonicalOrder(n, par) ==
    CHOOSE s \in EdgeOrders(n, par) :
        \A i, j \in 1..(n - 1) :
            i < j => (par[s[i]] < par[s[j]] \/ (par[s[i]] = par[s[j]] /\ s[i] < s[j]))

\* values of relationRatio: absent, zero, negative, positive
RatioValues == {None, Some(0), Some(0 - 1), Some(2)}

\* ids of the mates of the tree edges that are in the mate table
TableIds(mts) == {mts[k].id : k \in DOMAIN mts}

\* relation tables of one two-mate relation with any ratio, stored under the id of
\* its second mate; the driving mate is another mate of the tree or one outside it
RatioTables(n) ==
    {[k \in {ids[2]} |-> MateRelation(ids, ratio)] :
        ids \in {s \in [1..2 -> IdPool(n)] : s[1] # s[2] /\ s[2] # <<"id", "X", "f">>},
        ratio \in RatioValues}

\* each edge's mate authored in tree direction or reversed
DirectionConfigs(n) ==
    [2..n -> [place : {"fwd", "rev"}, type : {"REVOLUTE"}, name : {<<"?">>}]]

\* each edge's mate authored in tree direction, reversed or both ways
PresentConfigs(n) ==
    [2..n -> [place : {"fwd", "rev", "both"}, type : {"REVOLUTE"}, name : {<<"?">>}]]

\* relation tables of one two-mate relation between two mates of the table, stored
\* under the id of its second mate
PairTables(mts) ==
    {[k \in {ids[2]} |-> MateRelation(ids, None)] :
        ids \in {s \in [1..2 -> TableIds(mts)] : s[1] # s[2]}}

\* relation tables stored under keys of the mate table: one or two entries, each the
\* relation driven by a mate outside the tree and followed by the mate under that key
KeyedTables(mts) ==
    {[k \in keys |-> MateRelation(<<<<"id", "X", "f">>, mts[k].id>>, None)] :
        keys \in {ks \in SUBSET (DOMAIN mts) : ks # {} /\ Cardinality(ks) <= 2}}

NoLocals == [joint_list |-> <<>>, link_list |-> <<>>, joint_mimic |-> None]

\* the state before the first statement: prts[nm] is the Part of node nm, draws[k] the
\* colour the random source gives to the k-th Link built
InitFull(n, par, order, mts, rels, prts, draws) ==
    /\ graph_edges = EdgesOf(par, order)
    /\ parts = prts
    /\ rng = draws
    /\ raw_mates = mts
    /\ mates = mts
    /\ relations = rels
    /\ topological_mates = EmptyMap
    /\ topological_relations = EmptyMap
    /\ links_map = EmptyMap
    /\ joints_map = EmptyMap
    /\ assets_map = EmptyMap
    /\ stl_to_link_tf_map = EmptyMap
    /\ pc_main = "start"
    /\ pc_edge = [i \in 1..(n - 1) |-> "none"]
    /\ locals = [i \in 1..(n - 1) |-> NoLocals]
    /\ ready = <<>>
    /\ threads = {}
    /\ warnings = <<>>

PlainParts(n) == [nm \in {NodeName(i) : i \in 1..n} |-> Part(nm)]

\* the random source gives every Link the same colour
ConstantDraws(n) == [k \in 1..n |-> "RED"]

InitWith(n, par, order, mts, rels) ==
    InitFull(n, par, order, mts, rels, PlainParts(n), ConstantDraws(n))

\* every node is a part or a rigid sub-assembly
PartTables(n) ==
    {[nm \in {NodeName(i) : i \in 1..n} |-> IF nm \in rigid THEN RigidPart(nm) ELSE Part(nm)] :
        rigid \in SUBSET {NodeName(i) : i \in 1..n}}

\* what the random source may give to the Links of n nodes
DrawSequences(n) == [1..n -> Colors]

\* pairs of occurrences that are no tree edge in either direction; X is an occurrence
\* outside the tree
StrayPairs(n, par) ==
    LET occs == {NodeName(i) : i \in 1..n} \cup {<<"X">>}
        edges == {<<NodeName(par[c]), NodeName(c)>> : c \in 2..n}
    IN  {p \in occs \X occs : p[1] # p[2] /\ p \notin edges /\ <<p[2], p[1]>> \notin edges}

\* the mate table with one more mate, authored between the occurrences of pair p
WithStrayMate(mts, p) ==
    [k \in (DOMAIN mts) \cup {MateKey(p[1], p[2])} |->
        IF k \in DOMAIN mts THEN mts[k]
        ELSE RawMate(<<"id", "S", "f">>, p[1], p[2], "REVOLUTE", <<"Stray", " ", "1">>)]

InitTypes ==
    \E n \in 1..MaxNodes : \E par \in Trees(n) : \E order \in EdgeOrders(n, par) :
        \E cfg \in TypeConfigs(n) :
            InitWith(n, par, order, MateTable(n, par, WithNames(cfg)), EmptyMap)

InitNames ==
    \E n \in 1..MaxNodes : \E par \in Trees(n) : \E order \in EdgeOrders(n, par) :
        \E cfg \in NameConfigs(n) :
            InitWith(n, par, order, MateTable(n, par, cfg), EmptyMap)

InitPlaces ==
    \E n \in 1..MaxNodes : \E par \in Trees(n) : \E order \in EdgeOrders(n, par) :
        \E cfg \in PlaceConfigs(n) :
            InitWith(n, par, order, MateTable(n, par, WithNames(cfg)), EmptyMap)

InitRelations ==
    \E n \in 1..MaxNodes : \E par \in Trees(n) :
        \E rels \in RelationTables(n) : \E t \in RelationMateTypes :
            InitWith(n, par, CanonicalOrder(n, par),
                     MateTable(n, par, RelationConfig(n, rels, t)), rels)

InitRatios ==
    \E n \in 1..MaxNodes : \E par \in Trees(n) : \E rels \in RatioTables(n) :
        InitWith(n, par, CanonicalOrder(n, par),
                 MateTable(n, par, RelationConfig(n, rels, "REVOLUTE")), rels)

InitReversedRelations ==
    \E n \in 1..MaxNodes : \E par \in Trees(n) : \E cfg \in DirectionConfigs(n) :
        \E rels \in PairTables(MateTable(n, par, WithNames(cfg))) :
            InitWith(n, par, CanonicalOrder(n, par), MateTable(n, par, WithNames(cfg)), rels)

InitKeyedRelations ==
    \E n \in 1..MaxNodes : \E par \in Trees(n) : \E cfg \in PresentConfigs(n) :
        \E rels \in KeyedTables(MateTable(n, par, WithNames(cfg))) :
            InitWith(n, par, CanonicalOrder(n, par), MateTable(n, par, WithNames(cfg)), rels)

InitRigid ==
    \E n \in 1..MaxNodes : \E par \in Trees(n) : \E prts \in PartTables(n) :
        InitFull(n, par, CanonicalOrder(n, par),
                 MateTable(n, par, RelationConfig(n, EmptyMap, "REVOLUTE")), EmptyMap,
                 prts, ConstantDraws(n))

InitColors ==
    \E n \in 1..MaxNodes : \E par \in Trees(n) : \E draws \in DrawSequences(n) :
        InitFull(n, par, CanonicalOrder(n, par),
                 MateTable(n, par, RelationConfig(n, EmptyMap, "REVOLUTE")), EmptyMap,
                 PlainParts(n), draws)

InitStray ==
    \E n \in 1..MaxNodes : \E par \in Trees(n) : \E cfg \in DirectionConfigs(n) :
        \E p \in StrayPairs(n, par) :
            InitWith(n, par, CanonicalOrder(n, par),
                     WithStrayMate(MateTable(n, par, WithNames(cfg)), p), EmptyMap)

\* the arguments of _get_urdf_components_async, before its first statement
Init ==
    \/ InitTypes
    \/ InitNames
    \/ InitPlaces
    \/ InitRelations
    \/ InitRatios
    \/ InitReversedRelations
    \/ InitKeyedRelations
    \/ InitRigid
    \/ InitColors
    \/ InitStray

-----------------------------------------------------------------------------
(* The event loop and the coroutines *)

MAIN == 0

\* variant: the resumed coroutine runs ahead of the callbacks already queued
Resume_First(q, t) == <<t>> \o q

\* the awaiting coroutine is resumed by a callback appended to the loop's queue
Resume(q, t) == Append(q, t)

AllTasksDone(pcs) == \A i \in DOMAIN pcs : pcs[i] \in {"done", "skipped"}

\* variant: the warning is dropped
LogWarning_Silent(log, w) == log

\* LOGGER.warning (lines 257 and 352)
LogWarning(log, w) == Append(log, w)

\* variant: the root link is not stored
StoreRootLink_Nothing(map, link) == map

\* line 341: links_map[root_node] = root_link
StoreRootLink(map, link) == Put(map, root_node, link)

\* variant: the asset is not stored
StoreAsset_Nothing(map, name, asset) == map

\* lines 340 and 384: assets_map[name] = asset
StoreAsset(map, name, asset) == Put(map, name, asset)

\* line 105: the colour the random source gives to the Link being built; one Link has
\* been built for every stored transform
DrawColor(draws, tfs) == draws[Cardinality(DOMAIN tfs) + 1]

\* variant: the main coroutine is not woken
WakeMain_Never(q, pcs) == q

\* gather's outer future resolves when the last task finishes; that wakes the main coroutine
WakeMain(q, pcs) == IF AllTasksDone(pcs) THEN Append(q, MAIN) ELSE q

\* lines 327-336 and get_robot_link up to its await of asyncio.to_thread
MainStart ==
    /\ pc_main = "start"
    /\ LET r == get_topological_mates(graph_edges, mates, relations)
       IN  /\ mates' = r.mates
           /\ relations' = r.rels
           /\ IF r.raised
              THEN /\ pc_main' = "raised"
                   /\ UNCHANGED <<topological_mates, topological_relations, threads>>
              ELSE /\ pc_main' = "root_link"
                   /\ topological_mates' = r.tm
                   /\ topological_relations' = r.rels
                   /\ threads' = threads \cup {MAIN}
    /\ UNCHANGED <<graph_edges, parts, raw_mates, rng, links_map, joints_map, assets_map,
                   stl_to_link_tf_map, pc_edge, locals, ready, warnings>>

\* a worker thread finishes: its future's callback is queued on the loop
ThreadDone ==
    /\ \E t \in threads :
        /\ threads' = threads \ {t}
        /\ ready' = Resume(ready, t)
    /\ UNCHANGED <<graph_edges, parts, raw_mates, rng, mates, relations, topological_mates,
                   topological_relations, links_map, joints_map, assets_map,
                   stl_to_link_tf_map, pc_main, pc_edge, locals, warnings>>

\* lines 336-387: the root link is stored and gather creates one task per edge
MainRootDone ==
    /\ ready # <<>> /\ Head(ready) = MAIN /\ pc_main = "root_link"
    /\ LET part == parts[root_node]
           tf == StlToLinkTf(part, None)
       IN  /\ links_map' = StoreRootLink(links_map, MakeLink(root_node, part, tf,
                                                          DrawColor(rng, stl_to_link_tf_map)))
           /\ assets_map' = StoreAsset(assets_map, root_node,
                                       MakeDownloadableLink(root_node, part, tf))
           /\ stl_to_link_tf_map' = Put(stl_to_link_tf_map, root_node, tf)
    /\ IF Len(graph_edges) = 0
       THEN /\ pc_main' = "returned"
            /\ ready' = Tail(ready)
            /\ UNCHANGED pc_edge
       ELSE /\ pc_main' = "gather"
            /\ pc_edge' = [i \in DOMAIN pc_edge |-> "created"]
            /\ ready' = Tail(ready) \o [i \in 1..Len(graph_edges) |-> i]
    /\ UNCHANGED <<graph_edges, parts, raw_mates, rng, mates, relations, topological_mates,
                   topological_relations, joints_map, locals, threads, warnings>>

\* variant: the relation is looked up under the mate's name
RelationOf_ByName(mate, trels) == IF mate.name \in DOMAIN trels THEN Some(trels[mate.name]) ELSE None

\* line 355: topological_relations.get(topological_mates[mate_key].id)
RelationOf(mate, trels) == IF mate.id \in DOMAIN trels THEN Some(trels[mate.id]) ELSE None

\* variant: an absent ratio is passed on as a zero multiplier
MimicMultiplier_NoDefault(ratio) == IF ratio = None THEN 0 ELSE ratio[1]

\* line 360: relation.relationRatio or 1.0 (None and 0.0 are both falsy)
MimicMultiplier(ratio) == IF ratio = None \/ ratio[1] = 0 THEN 1 ELSE ratio[1]

\* lines 355-365: the mimic of the edge's mate
JointMimicOf(mate, trels, tmates) ==
    LET relation == RelationOf(mate, trels)
    IN  IF relation # None
        THEN Some([joint |-> get_joint_name(relation[1].mates[RELATION_PARENT + 1].featureId, tmates),
                   multiplier |-> MimicMultiplier(relation[1].relationRatio),
                   offset |-> 0])
        ELSE None

\* process_edge from its start to its first suspension (lines 345-382, the
\* await inside get_robot_link), or to its return when the parent is unknown
ProcessEdgeStart ==
    /\ ready # <<>> /\ Head(ready) # MAIN /\ pc_edge[Head(ready)] = "created"
    /\ LET i == Head(ready)
           parent == graph_edges[i][1]
           child == graph_edges[i][2]
           mate_key == MateKey(parent, child)
       IN  IF parent \notin DOMAIN stl_to_link_tf_map
           THEN /\ warnings' = LogWarning(warnings, <<"Parent not found in stl_to_link_tf_map", parent>>)
                /\ pc_edge' = [pc_edge EXCEPT ![i] = "skipped"]
                /\ ready' = WakeMain(Tail(ready), pc_edge')
                /\ UNCHANGED <<links_map, joints_map, locals, threads>>
           ELSE LET parent_tf == stl_to_link_tf_map[parent]
                    mate == topological_mates[mate_key]
                    joint_mimic == JointMimicOf(mate, topological_relations, topological_mates)
                    r == get_robot_joint(parent, child, mate, parent_tf, joint_mimic,
                                         parts[parent].isRigidAssembly)
                IN  /\ locals' = [locals EXCEPT ![i] = [joint_list |-> r.joints,
                                                       link_list |-> r.links,
                                                       joint_mimic |-> joint_mimic]]
                    /\ warnings' = IF r.warned
                                   THEN LogWarning(warnings, <<"Unsupported joint type", mate.mateType>>)
                                   ELSE warnings
                    /\ links_map' = UpdateAll(links_map, r.links)
                    /\ joints_map' = UpdateAll(joints_map, r.joints)
                    /\ threads' = threads \cup {i}
                    /\ pc_edge' = [pc_edge EXCEPT ![i] = "link"]
                    /\ ready' = Tail(ready)
    /\ UNCHANGED <<graph_edges, parts, raw_mates, rng, mates, relations, topological_mates,
                   topological_relations, assets_map, stl_to_link_tf_map, pc_main>>

\* process_edge after the worker thread returned (get_robot_link lines 95-130, then 382-385)
ProcessEdgeFinish ==
    /\ ready # <<>> /\ Head(ready) # MAIN /\ pc_edge[Head(ready)] = "link"
    /\ LET i == Head(ready)
           parent == graph_edges[i][1]
           child == graph_edges[i][2]
           mate == topological_mates[MateKey(parent, child)]
           tf == StlToLinkTf(parts[child], Some(mate))
       IN  /\ stl_to_link_tf_map' = Put(stl_to_link_tf_map, child, tf)
           /\ assets_map' = StoreAsset(assets_map, child,
                                       MakeDownloadableLink(child, parts[child], tf))
           /\ links_map' = Put(links_map, child,
                               MakeLink(child, parts[child], tf, DrawColor(rng, stl_to_link_tf_map)))
           /\ pc_edge' = [pc_edge EXCEPT ![i] = "done"]
           /\ ready' = WakeMain(Tail(ready), pc_edge')
    /\ UNCHANGED <<graph_edges, parts, raw_mates, rng, mates, relations, topological_mates,
                   topological_relations, joints_map, pc_main, locals, threads, warnings>>

\* lines 387-389: gather has resolved, the three maps are returned
MainReturn ==
    /\ ready # <<>> /\ Head(ready) = MAIN /\ pc_main = "gather"
    /\ pc_main' = "returned"
    /\ ready' = Tail(ready)
    /\ UNCHANGED <<graph_edges, parts, raw_mates, rng, mates, relations, topological_mates,
                   topological_relations, links_map, joints_map, assets_map,
                   stl_to_link_tf_map, pc_edge, locals, threads, warnings>>

Next ==
    \/ MainStart
    \/ ThreadDone
    \/ MainRootDone
    \/ ProcessEdgeStart
    \/ ProcessEdgeFinish
    \/ MainReturn

Spec == Init /\ [][Next]_vars

\* the event loop runs every callback in its queue and every worker thread returns;
\* the runs start from the inputs that decide which tasks exist and which are skipped:
\* every tree, every graph.edges order, every placement of the mates
FairSpec ==
    /\ InitPlaces
    /\ [][Next]_vars
    /\ WF_vars(MainStart)
    /\ WF_vars(ThreadDone)
    /\ WF_vars(MainRootDone)
    /\ WF_vars(ProcessEdgeStart)
    /\ WF_vars(ProcessEdgeFinish)
    /\ WF_vars(MainReturn)

-----------------------------------------------------------------------------
(* Vocabulary of the properties *)

Edges == Range(graph_edges)

TreeNodes == {root_node} \cup {e[2] : e \in Edges}

Tasks == DOMAIN pc_edge

Returned == pc_main = "returned"

\* the task got past the parent lookup: get_robot_joint was called for its edge
Processed(i) == pc_edge[i] \in {"link", "done"}

HasMate(e) == MateKey(e[1], e[2]) \in DOMAIN raw_mates \/ MateKey(e[2], e[1]) \in DOMAIN raw_mates

EveryEdgeMated == \A e \in Edges : HasMate(e)

OnlyReversed(e) == MateKey(e[2], e[1]) \in DOMAIN raw_mates /\ MateKey(e[1], e[2]) \notin DOMAIN raw_mates

\* the mate of an edge as authored (the reversed one when both exist, as line 295 prefers it)
RawMateOf(e) ==
    IF MateKey(e[2], e[1]) \in DOMAIN raw_mates THEN raw_mates[MateKey(e[2], e[1])]
    ELSE raw_mates[MateKey(e[1], e[2])]

TaskMate(i) == topological_mates[MateKey(graph_edges[i][1], graph_edges[i][2])]

AuxBodyNames(e) == {e[1] \o <<"-dummy-x">>, e[1] \o <<"-dummy-y">>}

UnsupportedMateTypes == {"PLANAR", "PIN_SLOT", "PARALLEL"}

\* names of the joints in the joint map that join the bodies of edge e under its mate's name
JointsOfEdge(e) ==
    LET base == get_sanitized_name(RawMateOf(e).name)
    IN  IF RawMateOf(e).mateType = "BALL"
        THEN {nm \in DOMAIN joints_map :
                \/ nm = base \o <<"-x">> /\ joints_map[nm].parent = e[1]
                \/ nm = base \o <<"-y">> /\ joints_map[nm].parent = e[1] \o <<"-dummy-x">>
                \/ nm = base \o <<"-z">> /\ joints_map[nm].child = e[2]}
        ELSE {nm \in DOMAIN joints_map :
                nm = base /\ joints_map[nm].parent = e[1] /\ joints_map[nm].child = e[2]}

-----------------------------------------------------------------------------
(* C1: when every tree edge has a mate, the returned body map holds a body *)
(* for every node of the tree plus the two auxiliary bodies of every BALL  *)
(* edge and nothing else, whatever the depth of the tree.                  *)
C1_BodyForEveryNode ==
    (Returned /\ EveryEdgeMated) =>
        DOMAIN links_map =
            TreeNodes \cup UNION {AuxBodyNames(e) : e \in {f \in Edges : RawMateOf(f).mateType = "BALL"}}

(* C2: when every tree edge has a mate, the returned joint map holds one   *)
(* joint for every non-BALL edge and three for every BALL edge; no edge is *)
(* left without a joint.                                                   *)
C2_JointsForEveryEdge ==
    (Returned /\ EveryEdgeMated) =>
        \A e \in Edges :
            Cardinality(JointsOfEdge(e)) = IF RawMateOf(e).mateType = "BALL" THEN 3 ELSE 1

\* the output as a function of the input alone: the tasks take their first step in
\* graph.edges order while only the root's transform is stored
RECURSIVE InputJoints(_, _)
InputJoints(i, jm) ==
    IF i > Len(graph_edges) THEN jm
    ELSE IF graph_edges[i][1] # root_node THEN InputJoints(i + 1, jm)
    ELSE InputJoints(i + 1,
            UpdateAll(jm, get_robot_joint(root_node, graph_edges[i][2], TaskMate(i),
                                          StlToLinkTf(parts[root_node], None),
                                          JointMimicOf(TaskMate(i), topological_relations,
                                                       topological_mates),
                                          parts[root_node].isRigidAssembly).joints))

InputAssetNames == {root_node} \cup {e[2] : e \in {f \in Edges : f[1] = root_node}}

InputBodyNames ==
    InputAssetNames
    \cup UNION {AuxBodyNames(e) : e \in {f \in Edges : f[1] = root_node /\ RawMateOf(f).mateType = "BALL"}}

(* C3: for a fixed input the returned body, joint and asset maps have the  *)
(* same keys and the same joints (parent, child, type and all) in every    *)
(* order in which the edge tasks are suspended and completed: they equal a *)
(* function of the input.                                                  *)
C3_OutputIndependentOfSchedule ==
    Returned =>
        /\ DOMAIN links_map = InputBodyNames
        /\ DOMAIN assets_map = InputAssetNames
        /\ joints_map = InputJoints(1, EmptyMap)

\* a run has returned in which two tasks were suspended in worker threads at the same time
C3_Witness ==
    /\ Returned
    /\ Cardinality({i \in Tasks : pc_edge[i] = "done"}) >= 2

(* C4: an edge without a mate under either key does not stop the synthesis: *)
(* the run returns, the edge is skipped with a warning, its child has no    *)
(* body and the root body is present.                                       *)
C4_MissingMateEdgeSkipped ==
    \A e \in Edges :
        ~HasMate(e) =>
            /\ pc_main # "raised"
            /\ Returned => /\ root_node \in DOMAIN links_map
                           /\ e[2] \notin DOMAIN links_map
                           /\ warnings # <<>>

(* C5: when the maps are returned, the parent and the child of every joint *)
(* are keys of the body map.                                               *)
C5_JointEndsAreBodies ==
    Returned =>
        \A nm \in DOMAIN joints_map :
            /\ joints_map[nm].parent \in DOMAIN links_map
            /\ joints_map[nm].child \in DOMAIN links_map

\* a returned run with the joints of a BALL mate and a dropped edge
C5_Witness ==
    /\ Returned
    /\ \E nm \in DOMAIN joints_map : joints_map[nm].child = root_node \o <<"-dummy-x">>
    /\ \E i \in Tasks : pc_edge[i] = "skipped"

JointTypes(joint_list) == [k \in DOMAIN joint_list |-> joint_list[k].type]

(* C6: get_robot_joint returns 1 Fixed joint for FASTENED, 1 Revolute for  *)
(* REVOLUTE, 1 Prismatic for SLIDER and CYLINDRICAL, 3 Revolute joints and *)
(* 2 auxiliary bodies for BALL, 1 Dummy for every other type; no auxiliary *)
(* body except for BALL.                                                   *)
C6_JointsPerMateType ==
    \A i \in Tasks :
        Processed(i) =>
            LET t == TaskMate(i).mateType
                types == JointTypes(locals[i].joint_list)
                aux == Len(locals[i].link_list)
            IN  /\ t = "FASTENED" => (types = <<"fixed">> /\ aux = 0)
                /\ t = "REVOLUTE" => (types = <<"revolute">> /\ aux = 0)
                /\ t \in {"SLIDER", "CYLINDRICAL"} => (types = <<"prismatic">> /\ aux = 0)
                /\ t = "BALL" => (types = <<"revolute", "revolute", "revolute">> /\ aux = 2)
                /\ t \notin {"FASTENED", "REVOLUTE", "SLIDER", "CYLINDRICAL", "BALL"} =>
                       (types = <<"dummy">> /\ aux = 0)

\* get_robot_joint has returned for a CYLINDRICAL mate and for a BALL mate
C6_Witness ==
    /\ \E i \in Tasks : Processed(i) /\ TaskMate(i).mateType = "CYLINDRICAL"
    /\ \E i \in Tasks : Processed(i) /\ TaskMate(i).mateType = "BALL"

(* C7: an edge whose mate is PLANAR, PIN_SLOT or PARALLEL never aborts the *)
(* synthesis, and its Dummy joint from parent to child and the child's     *)
(* body are in the returned maps.                                          *)
C7_UnsupportedEdgeKept ==
    /\ EveryEdgeMated => pc_main # "raised"
    /\ Returned =>
        \A e \in Edges :
            RawMateOf(e).mateType \in UnsupportedMateTypes =>
                /\ \E nm \in DOMAIN joints_map :
                      /\ joints_map[nm].type = "dummy"
                      /\ joints_map[nm].parent = e[1]
                      /\ joints_map[nm].child = e[2]
                /\ e[2] \in DOMAIN links_map

(* C8: for a BALL mate named <base>, get_robot_joint returns <base>-x,     *)
(* <base>-y, <base>-z in that order, chained parent -> first auxiliary     *)
(* body -> second auxiliary body -> child; root->A via a BALL mate gives 4 *)
(* bodies.                                                                 *)
C8_BallChain ==
    /\ \A i \in Tasks :
          (Processed(i) /\ TaskMate(i).mateType = "BALL") =>
              LET base == get_sanitized_name(TaskMate(i).name)
                  jl == locals[i].joint_list
                  ll == locals[i].link_list
              IN  /\ Len(jl) = 3 /\ Len(ll) = 2
                  /\ jl[1].name = base \o <<"-x">>
                  /\ jl[2].name = base \o <<"-y">>
                  /\ jl[3].name = base \o <<"-z">>
                  /\ jl[1].parent = graph_edges[i][1] /\ jl[1].child = ll[1].name
                  /\ jl[2].parent = ll[1].name /\ jl[2].child = ll[2].name
                  /\ jl[3].parent = ll[2].name /\ jl[3].child = graph_edges[i][2]
    /\ (Returned /\ Len(graph_edges) = 1 /\ TaskMate(1).mateType = "BALL") =>
          Cardinality(DOMAIN links_map) = 4

\* the run for root->A with a BALL mate has returned
C8_Witness ==
    /\ Returned
    /\ Len(graph_edges) = 1
    /\ TaskMate(1).mateType = "BALL"
    /\ Len(locals[1].joint_list) = 3

(* C9: a tree edge (A, B) whose mate is stored only under the reversed key *)
(* B-A comes back from get_topological_mates under the key A-B with its    *)
(* two mated entities swapped, entity 0 on the parent side.                *)
C9_ReversedMateOriented ==
    pc_main \notin {"start", "raised"} =>
        \A e \in Edges :
            OnlyReversed(e) =>
                LET key == MateKey(e[1], e[2])
                    raw == raw_mates[MateKey(e[2], e[1])]
                IN  /\ key \in DOMAIN topological_mates
                    /\ topological_mates[key].id = raw.id
                    /\ topological_mates[key].matedEntities[1] = raw.matedEntities[2]
                    /\ topological_mates[key].matedEntities[2] = raw.matedEntities[1]
                    /\ topological_mates[key].matedEntities[1].matedOccurrence = e[1]

\* get_topological_mates has returned for a tree with a mate authored child-to-parent
C9_Witness ==
    /\ pc_main = "root_link"
    /\ \E e \in Edges : OnlyReversed(e) /\ MateKey(e[1], e[2]) \in DOMAIN topological_mates

\* the tasks whose edge carries the mate with this id
TasksOfMate(id) == {i \in Tasks : Processed(i) /\ TaskMate(i).id = id}

HasMimic(j) == j.mimic # None

TaskRelation(i) == topological_relations[TaskMate(i).id]

Keyed(i) == Processed(i) /\ TaskMate(i).id \in DOMAIN topological_relations

\* names of the joints synthesized by the tasks of the mate with this id
JointNamesOfMate(id) ==
    UNION {{locals[d].joint_list[x].name : x \in DOMAIN locals[d].joint_list} : d \in TasksOfMate(id)}

(* C11: when the maps are returned, the target of every Mimic of a joint   *)
(* in the joint map is a key of the joint map, the name of a joint         *)
(* synthesized from the driving mate mates[0] of the relation.             *)
C11_MimicTargetIsJoint ==
    Returned =>
        \A i \in Tasks :
            Keyed(i) =>
                \A x \in DOMAIN locals[i].joint_list :
                    LET j == locals[i].joint_list[x]
                    IN  (HasMimic(j) /\ j.name \in DOMAIN joints_map /\ joints_map[j.name] = j) =>
                            /\ j.mimic[1].joint \in DOMAIN joints_map
                            /\ j.mimic[1].joint
                                  \in JointNamesOfMate(TaskRelation(i).mates[RELATION_PARENT + 1].featureId)

(* C12: in a returned run, when the driving mate of the relation of a      *)
(* processed edge gave no joint (it is not in the oriented mate table, or  *)
(* its edge was skipped), the joints of the edge carry no Mimic and a      *)
(* warning has been recorded.                                              *)
C12_MissingDriverOmitsMimic ==
    Returned =>
        \A i \in Tasks :
            (Keyed(i) /\ TasksOfMate(TaskRelation(i).mates[RELATION_PARENT + 1].featureId) = {}) =>
                /\ \A x \in DOMAIN locals[i].joint_list : ~HasMimic(locals[i].joint_list[x])
                /\ warnings # <<>>

(* C13: when the relation of a processed edge carries a ratio r, every     *)
(* Mimic of the edge's joints has multiplier r and offset 0: for r zero,   *)
(* negative or positive alike.                                             *)
C13_ExplicitRatioIsMultiplier ==
    \A i \in Tasks :
        (Keyed(i) /\ TaskRelation(i).relationRatio # None) =>
            \A x \in DOMAIN locals[i].joint_list :
                LET j == locals[i].joint_list[x]
                IN  HasMimic(j) => /\ j.mimic[1].multiplier = TaskRelation(i).relationRatio[1]
                                   /\ j.mimic[1].offset = 0

(* C14: when the relation of a processed edge carries no ratio, every      *)
(* Mimic of the edge's joints has multiplier 1 and offset 0.               *)
C14_AbsentRatioDefaultsToOne ==
    \A i \in Tasks :
        (Keyed(i) /\ TaskRelation(i).relationRatio = None) =>
            \A x \in DOMAIN locals[i].joint_list :
                LET j == locals[i].joint_list[x]
                IN  HasMimic(j) => /\ j.mimic[1].multiplier = 1
                                   /\ j.mimic[1].offset = 0

\* a joint with a Mimic has been synthesized under a relation without a ratio
C14_Witness ==
    \E i \in Tasks :
        /\ Keyed(i)
        /\ TaskRelation(i).relationRatio = None
        /\ \E x \in DOMAIN locals[i].joint_list : HasMimic(locals[i].joint_list[x])

\* a warning recorded during the run names the parent of edge e as missing (line 352)
WarnedEdge(e) ==
    \E w \in DOMAIN warnings : warnings[w] = <<"Parent not found in stl_to_link_tf_map", e[1]>>

(* C15: when the maps are returned, every tree edge that has no joint in   *)
(* the joint map, and every edge whose child has no body in the body map,  *)
(* had a warning recorded for it during the run.                           *)
C15_NoSilentDrop ==
    Returned =>
        \A e \in Edges :
            (JointsOfEdge(e) = {} \/ e[2] \notin DOMAIN links_map) => WarnedEdge(e)

(* C16: no edge task abandons its edge: a task is never skipped, and a     *)
(* task that computed its joints did so with the parent's body and         *)
(* mesh-to-body transform stored.                                          *)
C16_TaskWaitsForParent ==
    \A i \in Tasks :
        /\ pc_edge[i] # "skipped"
        /\ Processed(i) => /\ graph_edges[i][1] \in DOMAIN stl_to_link_tf_map
                           /\ graph_edges[i][1] \in DOMAIN links_map

\* keys of the joint map written by task i (line 377)
TaskJointNames(i) == {locals[i].joint_list[x].name : x \in DOMAIN locals[i].joint_list}

\* keys of the body map written by task i (lines 376 and 385)
TaskBodyNames(i) ==
    {locals[i].link_list[x].name : x \in DOMAIN locals[i].link_list} \cup {graph_edges[i][2]}

(* C17: two different edge tasks never write a joint under the same name   *)
(* nor a body under the same name (auxiliary bodies of BALL mates          *)
(* included), whatever the mate types and mate names on the edges.         *)
C17_KeysWrittenOnce ==
    \A i, j \in Tasks :
        (i # j /\ Processed(i) /\ Processed(j)) =>
            /\ TaskJointNames(i) \cap TaskJointNames(j) = {}
            /\ TaskBodyNames(i) \cap TaskBodyNames(j) = {}

\* get_topological_mates has returned its two tables
Oriented_Done == pc_main \notin {"start", "raised"}

(* C18: for every tree edge whose mate is stored under the exact key       *)
(* parent-child, the oriented table holds that mate record under that key  *)
(* with its entities in the authored order, whatever other keys the mate   *)
(* table holds.                                                            *)
C18_ExactKeyMateKept ==
    Oriented_Done =>
        \A e \in Edges :
            MateKey(e[1], e[2]) \in DOMAIN raw_mates =>
                /\ MateKey(e[1], e[2]) \in DOMAIN topological_mates
                /\ topological_mates[MateKey(e[1], e[2])] = raw_mates[MateKey(e[1], e[2])]

\* the edges whose oriented mate is the one authored under the reversed key
ReversedTaken(tmates) ==
    {e \in Edges : /\ MateKey(e[2], e[1]) \in DOMAIN raw_mates
                   /\ tmates[MateKey(e[1], e[2])].id = raw_mates[MateKey(e[2], e[1])].id}

\* the step of get_topological_mates moves the relation entries of the reversed edges
\* and keeps every other entry
RelationsMoved ==
    (pc_main = "start" /\ pc_main' = "root_link") =>
        LET taken == ReversedTaken(topological_mates')
            moved == {e \in taken : MateKey(e[2], e[1]) \in DOMAIN relations}
        IN  /\ \A e \in moved :
                  /\ MateKey(e[1], e[2]) \in DOMAIN topological_relations'
                  /\ topological_relations'[MateKey(e[1], e[2])] = relations[MateKey(e[2], e[1])]
                  /\ MateKey(e[2], e[1]) \notin DOMAIN topological_relations'
            /\ \A k \in (DOMAIN relations) \ {MateKey(e[2], e[1]) : e \in moved} :
                  /\ k \in DOMAIN topological_relations'
                  /\ topological_relations'[k] = relations[k]
            /\ DOMAIN topological_relations'
                  \subseteq (DOMAIN relations) \cup {MateKey(e[1], e[2]) : e \in moved}

(* C19: after get_topological_mates, for every tree edge whose mate was    *)
(* taken from the reversed key child-parent, a relation entry stored under *)
(* that reversed key is stored under the key parent-child with the same    *)
(* record and no entry remains under the reversed key; every other entry   *)
(* of the relation table is unchanged.                                     *)
C19_RelationMovedToCanonicalKey == [][RelationsMoved]_vars

\* the relations that list the mate of task i as a non-driving mate
DependentRelations(i) ==
    {k \in DOMAIN topological_relations :
        \E m \in 2..Len(topological_relations[k].mates) :
            topological_relations[k].mates[m].featureId = TaskMate(i).id}

(* C20: in a returned run, on a processed edge whose mate was authored     *)
(* reversed and is a non-driving mate of a relation whose driving mate was *)
(* synthesized too (reversed or not), every joint of the edge carries a    *)
(* Mimic whose target is the name of a joint of the driving mate.          *)
C20_ReversedDependentMimics ==
    Returned =>
        \A i \in Tasks :
            (Processed(i) /\ OnlyReversed(graph_edges[i])) =>
                \A k \in DependentRelations(i) :
                    LET driver == topological_relations[k].mates[RELATION_PARENT + 1].featureId
                    IN  TasksOfMate(driver) # {} =>
                            \A x \in DOMAIN locals[i].joint_list :
                                LET j == locals[i].joint_list[x]
                                IN  /\ HasMimic(j)
                                    /\ j.mimic[1].joint \in JointNamesOfMate(driver)

\* the tasks that called get_robot_joint with a BALL mate
BallTasks == {i \in Tasks : Processed(i) /\ TaskMate(i).mateType = "BALL"}

(* C21: the three joints get_robot_joint returns for a BALL mate all carry *)
(* the Mimic it was given (same target, multiplier and offset), and none   *)
(* of them carries a Mimic when it was given none.                         *)
C21_BallJointsShareMimic ==
    \A i \in BallTasks :
        /\ Len(locals[i].joint_list) = 3
        /\ \A x \in 1..3 : locals[i].joint_list[x].mimic = locals[i].joint_mimic

\* a BALL mate has been synthesized with a Mimic
C21_Witness == \E i \in BallTasks : locals[i].joint_mimic # None

(* C22: in every state of a run, if the joint map is not empty or the body *)
(* map or the asset map holds an entry other than the root's, then the     *)
(* root's body, asset and mesh-to-body transform are stored.               *)
C22_RootStoredFirst ==
    (\/ joints_map # EmptyMap
     \/ (DOMAIN links_map) \ {root_node} # {}
     \/ (DOMAIN assets_map) \ {root_node} # {}) =>
        /\ root_node \in DOMAIN links_map
        /\ root_node \in DOMAIN assets_map
        /\ root_node \in DOMAIN stl_to_link_tf_map

\* an edge task has written its joint while no child body is stored yet
C22_Witness ==
    /\ joints_map # EmptyMap
    /\ DOMAIN assets_map = {root_node}

\* the parent-side frame of the task's mate as get_robot_joint composes it (lines 146-151)
ComposedParentFrame(i) ==
    LET entity == Entity(TaskMate(i), PARENT)
    IN  IF parts[graph_edges[i][1]].isRigidAssembly
        THEN MatMul(Frame(entity.parentCS), Frame(entity.matedCS))
        ELSE Frame(entity.matedCS)

(* C23: for every edge whose body was stored, the child's mesh-to-body     *)
(* transform is the inverse of the frame get_robot_joint used for the      *)
(* joint origin: the oriented mate's parent-side frame, composed with the  *)
(* parent part's placement transform exactly when the parent is a rigid    *)
(* sub-assembly.                                                           *)
C23_BodyFrameIsJointFrame ==
    \A i \in Tasks :
        pc_edge[i] = "done" =>
            /\ stl_to_link_tf_map[graph_edges[i][2]] = Inv(ComposedParentFrame(i))
            /\ locals[i].joint_list[1].origin
                  = MatMul(stl_to_link_tf_map[graph_edges[i][1]], ComposedParentFrame(i))

\* the colour every body takes in the run on the same input in which the random source
\* gives ConstantDraws
ReferenceRunColor == Some(DrawColor(ConstantDraws(Len(rng)), EmptyMap))

(* C24: the colour of a body does not depend on the random source: every   *)
(* body of a tree node has the colour it has in the run on the same input  *)
(* whose random source gives the constant draws.                           *)
C24_ColorIndependentOfRandomSource ==
    \A nm \in TreeNodes \cap DOMAIN links_map : links_map[nm].color = ReferenceRunColor

(* C25: under fair scheduling, a run on a tree whose edges all have mates  *)
(* terminates: every edge task finishes, having written its body or        *)
(* skipped its edge, and the three maps are returned.                      *)
C25_RunTerminates ==
    (pc_main = "start" /\ EveryEdgeMated) ~> (Returned /\ AllTasksDone(pc_edge))

\* a run has returned after one task wrote its body and another skipped its edge
C25_Witness ==
    /\ Returned
    /\ \E i \in Tasks : pc_edge[i] = "done"
    /\ \E i \in Tasks : pc_edge[i] = "skipped"

\* the nodes of the subtrees rooted at the nodes of S
RECURSIVE Subtrees(_, _)
Subtrees(S, k) ==
    IF k = 0 THEN S
    ELSE Subtrees(S \cup {e[2] : e \in {f \in Edges : f[1] \in S}}, k - 1)

(* C26: when the maps are returned, for every edge whose child has a body, *)
(* the parent has a body and the joint map holds the joints of the edge    *)
(* (three for BALL, one otherwise); and no node in the subtree below a     *)
(* skipped edge has a body.                                                *)
C26_BodiesAncestorClosed ==
    Returned =>
        /\ \A e \in Edges :
              e[2] \in DOMAIN links_map =>
                  /\ e[1] \in DOMAIN links_map
                  /\ Cardinality(JointsOfEdge(e)) = IF RawMateOf(e).mateType = "BALL" THEN 3 ELSE 1
        /\ \A i \in Tasks :
              pc_edge[i] = "skipped" =>
                  Subtrees({graph_edges[i][2]}, Len(graph_edges)) \cap DOMAIN links_map = {}

\* the step in which task i returns for want of its parent's transform leaves the four
\* maps alone and logs the warning of line 352; a task that returned so stays returned
\* and is never queued or run in a thread again
SkippedTaskHasNoEffect ==
    \A i \in Tasks :
        /\ (pc_edge[i] # "skipped" /\ pc_edge'[i] = "skipped") =>
              /\ graph_edges[i][1] \notin DOMAIN stl_to_link_tf_map
              /\ UNCHANGED <<links_map, joints_map, assets_map, stl_to_link_tf_map>>
              /\ warnings' = Append(warnings, <<"Parent not found in stl_to_link_tf_map",
                                                graph_edges[i][1]>>)
        /\ pc_edge[i] = "skipped" =>
              /\ pc_edge'[i] = "skipped"
              /\ i \notin Range(ready')
              /\ i \notin threads'

(* C27: an edge task that finds no stored transform for its parent returns *)
(* with no effect but a logged warning: the body, joint, asset and         *)
(* transform maps are unchanged by it, and the task never runs again.      *)
C27_SkippedTaskOnlyWarns == [][SkippedTaskHasNoEffect]_vars

\* a run has returned in which a task was skipped
C27_Witness == Returned /\ \E i \in Tasks : pc_edge[i] = "skipped"

\* a second call of get_topological_mates with the same tree and the caller's same tables
SecondCall == get_topological_mates(graph_edges, mates, relations)

(* C28: after get_topological_mates has returned, the mate records of the  *)
(* caller's table have the entity order they had before the call, and a    *)
(* second call with the same tree and tables returns the oriented mates    *)
(* with the same entity order for every edge.                              *)
C28_OrientationIdempotent ==
    Oriented_Done =>
        /\ \A k \in DOMAIN raw_mates : mates[k].matedEntities = raw_mates[k].matedEntities
        /\ ~SecondCall.raised
        /\ \A k \in DOMAIN topological_mates :
              SecondCall.tm[k].matedEntities = topological_mates[k].matedEntities

CanonicalKeys == {MateKey(e[1], e[2]) : e \in Edges}

(* C29: when get_topological_mates has returned normally, the keys of the  *)
(* oriented mate table are exactly the keys parent-child of the tree       *)
(* edges: one entry per edge, and none for a mate of the input table that  *)
(* joins no tree edge in either direction.                                 *)
C29_OrientedKeysAreTreeEdges ==
    Oriented_Done => DOMAIN topological_mates = CanonicalKeys

\* the table of a tree with a reversed mate and a mate that joins no tree edge has been oriented
C29_Witness ==
    /\ Oriented_Done
    /\ \E e \in Edges : OnlyReversed(e)
    /\ \E k \in DOMAIN raw_mates :
          /\ Split(k) \notin Edges
          /\ Reverse(Split(k)) \notin Edges

(* C30: in every state between task steps, a tree node has a stored        *)
(* mesh-to-body transform exactly when it has an asset and exactly when it *)
(* has a body; the auxiliary bodies of BALL mates have neither an asset    *)
(* nor a transform.                                                        *)
C30_TransformAssetBodyTogether ==
    /\ \A nm \in DOMAIN parts :
          /\ (nm \in DOMAIN stl_to_link_tf_map) = (nm \in DOMAIN assets_map)
          /\ (nm \in DOMAIN assets_map) = (nm \in DOMAIN links_map)
    /\ \A e \in Edges :
          AuxBodyNames(e) \cap (DOMAIN assets_map \cup DOMAIN stl_to_link_tf_map) = {}
    /\ (DOMAIN assets_map \cup DOMAIN stl_to_link_tf_map) \subseteq DOMAIN parts

\* the auxiliary bodies of a BALL mate and the body of its child are stored
C30_Witness ==
    \E i \in BallTasks :
        /\ AuxBodyNames(graph_edges[i]) \subseteq DOMAIN links_map
        /\ graph_edges[i][2] \in DOMAIN assets_map

====
